---------------------------- MODULE Spec2Model ----------------------------
(***************************************************************************)
(* A model of strafes-globals-db: the job that copies the world-record     *)
(* leaderboard and the map catalog of the StrafesNET API into the tables   *)
(* users, maps and globals.  One run of main() is either a seed run        *)
(* (seedWRs: updateMaps, loadAllWRs, insertUsers, TRUNCATE + INSERT) or a  *)
(* refresh run (refreshWRs: page 1 only, insertUsers, the map check, the   *)
(* upsert).  Every await of the code is a step of the model.               *)
(***************************************************************************)
EXTENDS Integers, Sequences, FiniteSets, TLC

(***************************************************************************)
(* Bounds of the model.                                                    *)
(***************************************************************************)
\* loadAllWRs issues a round only while its cursor is at most MaxPage.
MaxPage == 11
\* The sources loadAllWRs is checked on alone have their first empty record
\* page at 1..MaxEmptyPage.
MaxEmptyPage == 7
\* The sources whole runs are checked on have it at 1..MaxRunEmptyPage.
MaxRunEmptyPage == 3
\* At most MaxFaults requests of a run fail one by one; an outage (every
\* request fails from then on) is not counted.
MaxFaults == 1
\* The small catalog holds the maps 1..SmallCatalog.
SmallCatalog == 6

(***************************************************************************)
(* Constants of the program.                                               *)
(***************************************************************************)
BurstSize == 5
BurstSentinel == 999
BurstThreshold == 70
MapPageSize == 100

\* What tryGetRequest returns after catching an error.
Undefined == [undefined |-> TRUE]
NoHeader == "no-header"

(***************************************************************************)
(* The record source: what GET time/worldrecord returns for each page.     *)
(* A raw record has the API's field names; the program converts it.        *)
(***************************************************************************)
UserOf(t) == 1 + (t % 2)
MapOf(t) == 1 + ((t - 1) \div 2)

\* The record with id t as the API reports it; rev marks a later report of the
\* same time entry (the user has been renamed, the time corrected).  What a
\* time entry was set on (map, game, style, mode) never changes.
ApiRecord(t, rev) ==
    [id |-> t,
     user |-> [id |-> UserOf(t), username |-> IF rev THEN "renamed" ELSE "name"],
     map |-> [id |-> MapOf(t)],
     game_id |-> 1, style_id |-> 1, mode_id |-> t % 2,
     date |-> IF rev THEN 20 + t ELSE 10 + t,
     time |-> IF rev THEN 900 - t ELSE 1000 - t]

\* The record that has beaten time entry t: a new id and another user on the
\* same map, game, style and mode.
Beating(t) ==
    [id |-> 100 + t,
     user |-> [id |-> 3, username |-> "name"],
     map |-> [id |-> MapOf(t)],
     game_id |-> 1, style_id |-> 1, mode_id |-> t % 2,
     date |-> 30 + t,
     time |-> 800 - t]

\* Page p of the source: the record of the page before, reported again (the
\* list moved while it was read), then the page's own record, twice.  With
\* beaten, page 1 starts with the record that has beaten time entry 2, which
\* page 2 still lists.
ApiPage(p, beaten) ==
    IF p = 1
    THEN (IF beaten THEN <<Beating(2)>> ELSE <<>>)
         \o <<ApiRecord(1, FALSE), ApiRecord(1, TRUE)>>
    ELSE <<ApiRecord(p - 1, TRUE), ApiRecord(p, FALSE), ApiRecord(p, TRUE)>>

\* A source whose first empty page is K; with tail, the page after K holds
\* records again.
WRSource(K, tail, beaten) ==
    [p \in 1..(K + 1) |->
        IF p < K THEN ApiPage(p, beaten)
        ELSE IF p = K THEN <<>>
        ELSE IF tail THEN ApiPage(p, beaten) ELSE <<>>]

WRSources == {WRSource(K, tail, FALSE) : K \in 1..MaxEmptyPage, tail \in BOOLEAN}
RunSources == {WRSource(K, FALSE, beaten) : K \in 1..MaxRunEmptyPage, beaten \in BOOLEAN}

(***************************************************************************)
(* The map source: what GET map returns for each page, 100 maps to a page. *)
(* Every map the records refer to is in the catalog.                       *)
(***************************************************************************)
\* Odd maps have a thumbnail asset, even maps have none (thumbnail: 0).
ApiMap(m) ==
    [id |-> m, display_name |-> "map", thumbnail |-> IF m % 2 = 1 THEN 1000 + m ELSE 0]

\* Page k of a catalog of n maps.
CatalogPage(n, k) ==
    LET first == MapPageSize * (k - 1) + 1
        last  == IF MapPageSize * k < n THEN MapPageSize * k ELSE n
    IN  [j \in 1..(last - first + 1) |-> ApiMap(first + j - 1)]

CatalogPages(n) == (n + MapPageSize - 1) \div MapPageSize

MapSource(n) == [k \in 1..CatalogPages(n) |-> CatalogPage(n, k)]

RunMapSources == {MapSource(n) : n \in {SmallCatalog, MapPageSize + SmallCatalog}}

VARIABLES
    wrSource,        \* the record pages of the API, fixed for the behaviour
    mapSource,       \* the map pages of the API, fixed for the behaviour
    outage,          \* the network is down: every request fails
    faults,          \* requests of this run that failed while the network was up
    users,           \* table users
    maps,            \* table maps
    globals,         \* table globals
    pc,              \* where main() and the function it awaits stand
    mode,            \* Mode.Seed or Mode.Refresh of the current run
    success,         \* let success of main: what the mode function returned
    exitCode,        \* process.exitCode of the last run, "none" before
    wrs,             \* const wrs : Record[]
    timeIds,         \* const timeIds = new Set<number>()
    burstRemaining,  \* let burstRemaining
    page,            \* let page
    hasMore,         \* let hasMore
    inFlight,        \* how many of the round's promises have not settled
    idx,             \* position of `for (const response of resolved)`
    mapCursor,       \* let i of loadMaps
    mapsLoaded,      \* const maps: StrafesMap[] of loadMaps
    mapData,         \* const data of the map page being worked on
    loadResult,      \* what loadMaps returned to updateMaps
    requested,       \* history: the page numbers requested in this run, in order
    fetched,         \* history: pages whose response was processed in this run
    arrived,         \* history: the raw records processed in this run, in order
    roundHeaders,    \* history: the burst headers read in the current round
    log              \* history: what this run has done to the tables, in order

envVars == <<wrSource, mapSource>>
netVars == <<outage, faults>>
dbVars == <<users, maps, globals>>
mainVars == <<mode, success, exitCode>>
driverVars == <<wrs, timeIds, burstRemaining, page, hasMore, inFlight, idx>>
mapVars == <<mapCursor, mapsLoaded, mapData, loadResult>>
histVars == <<requested, fetched, arrived, roundHeaders, log>>

vars == <<envVars, netVars, dbVars, pc, mainVars, driverVars, mapVars, histVars>>

(***************************************************************************)
(* The network: tryGetRequest resolves to a response or, after an error,   *)
(* to undefined.                                                           *)
(***************************************************************************)
MayFail == outage \/ faults < MaxFaults
MaySucceed == ~outage
FaultsAfter(n) == IF outage THEN faults ELSE faults + n

BurstHeaders == {NoHeader, "69", "70"}

\* +remaining: the number a header string denotes.
ToNumber(s) == CASE s = "69" -> 69 [] s = "70" -> 70

PageData(p) == IF p \in DOMAIN wrSource THEN wrSource[p] ELSE <<>>

\* What GET time/worldrecord?page_number=p can resolve to.
Responses(p) ==
    (IF MayFail THEN {Undefined} ELSE {}) \cup
    (IF MaySucceed
     THEN {[headers |-> h, data |-> PageData(p)] : h \in BurstHeaders}
     ELSE {})

MapPageData(k) == IF k \in DOMAIN mapSource THEN mapSource[k] ELSE <<>>

\* What GET map?page_number=k can resolve to.
MapResponses(k) ==
    (IF MayFail THEN {Undefined} ELSE {}) \cup
    (IF MaySucceed THEN {[data |-> MapPageData(k)]} ELSE {})

\* What the thumbnail lookup of the given size can resolve to: an image url
\* for every asset asked for.
ThumbResponse(assetIds, size) ==
    [data |-> [j \in 1..Len(assetIds) |->
                 [targetId |-> assetIds[j], imageUrl |-> <<size, assetIds[j]>>]]]

\* The pairs (largeReq, smallReq) the two lookups can resolve to.
ThumbOutcomes(assetIds) ==
    {o \in [large : {Undefined, ThumbResponse(assetIds, "420x420")},
            small : {Undefined, ThumbResponse(assetIds, "75x75")}] :
        LET failed == (IF o.large = Undefined THEN 1 ELSE 0)
                      + (IF o.small = Undefined THEN 1 ELSE 0)
        IN  /\ (failed > 0 => (outage \/ faults + failed <= MaxFaults))
            /\ (failed < 2 => MaySucceed)
            /\ (outage => failed = 2)}

ThumbFailures(o) ==
    (IF o.large = Undefined THEN 1 ELSE 0) + (IF o.small = Undefined THEN 1 ELSE 0)

(***************************************************************************)
(* Pure parts of loadAllWRs and refreshWRs.                                *)
(***************************************************************************)
\* new Date(record.date): the Date object of the instant the API's value names.
NewDate(d) == [instant |-> d]

\* wrs.push({timeId: record.id, userId: record.user.id, ...})
ToRecord(record) ==
    [timeId |-> record.id,
     userId |-> record.user.id,
     username |-> record.user.username,
     mapId |-> record.map.id,
     game |-> record.game_id,
     style |-> record.style_id,
     course |-> record.mode_id,
     date |-> NewDate(record.date),
     time |-> record.time]

\* A loop that pushes every record, seen or not.
RECURSIVE CollectEvery(_, _, _)
CollectEvery(data, w, ids) ==
    IF data = <<>> THEN [wrs |-> w, timeIds |-> ids]
    ELSE CollectEvery(Tail(data), Append(w, ToRecord(Head(data))),
                      ids \cup {Head(data).id})

\* A loop in which a seen id overwrites the record collected for it.
RECURSIVE CollectKeepLast(_, _, _)
CollectKeepLast(data, w, ids) ==
    IF data = <<>> THEN [wrs |-> w, timeIds |-> ids]
    ELSE LET record == Head(data) IN
         IF record.id \in ids
         THEN CollectKeepLast(Tail(data),
                              [j \in 1..Len(w) |-> IF w[j].timeId = record.id
                                                   THEN ToRecord(record) ELSE w[j]],
                              ids)
         ELSE CollectKeepLast(Tail(data), Append(w, ToRecord(record)),
                              ids \cup {record.id})

\* for (const record of data): skip a seen id, else remember it and push.
RECURSIVE Collect(_, _, _)
Collect(data, w, ids) ==
    IF data = <<>> THEN [wrs |-> w, timeIds |-> ids]
    ELSE LET record == Head(data) IN
         IF record.id \in ids
         THEN Collect(Tail(data), w, ids)
         ELSE Collect(Tail(data), Append(w, ToRecord(record)), ids \cup {record.id})

\* A tracker that takes the value of the last header, lower or not.
TrackLastBurst(remaining, current) ==
    IF remaining # NoHeader THEN ToNumber(remaining) ELSE current

\* if (typeof remaining === "string" && +remaining < burstRemaining)
TrackBurst(remaining, current) ==
    IF remaining # NoHeader /\ ToNumber(remaining) < current
    THEN ToNumber(remaining)
    ELSE current

\* A cursor that moves on by one page too few.
ShortCursor(p) == p + BurstSize - 1

\* page += 5
NextCursor(p) == p + BurstSize

\* A test that also cools down at the threshold itself.
CooldownAtThreshold(b) == b <= BurstThreshold

\* if (burstRemaining < 70)
NeedsCooldown(b) == b < BurstThreshold

\* The page the promise at position i of the current round asked for (the
\* cursor has already been advanced).
PromisePage(i) == page - BurstSize + i

(***************************************************************************)
(* Pure parts of loadMaps.                                                 *)
(***************************************************************************)
NoThumb == <<>>

\* for (const map of data) if (map.thumbnail) assetIds.push(map.thumbnail)
HasThumbnail(map) == map.thumbnail # 0

AssetIds(data) ==
    LET withAsset == SelectSeq(data, HasThumbnail)
    IN  [j \in 1..Len(withAsset) |-> withAsset[j].thumbnail]

Targets(req) ==
    IF req = Undefined THEN {} ELSE {req.data[j].targetId : j \in 1..Len(req.data)}

UrlOf(req, target) ==
    LET hits == {j \in 1..Len(req.data) : req.data[j].targetId = target}
    IN  req.data[CHOOSE j \in hits : \A k \in hits : k <= j].imageUrl

\* assetToThumb when the small url is set only on an entry the large lookup
\* has made.
AssetToThumbOfLarge(largeReq, smallReq) ==
    [target \in Targets(largeReq) |->
        [large |-> UrlOf(largeReq, target),
         small |-> IF target \in Targets(smallReq)
                   THEN UrlOf(smallReq, target) ELSE NoThumb]]

\* assetToThumb after `if (largeReq)` and `if (smallReq)`.
AssetToThumb(largeReq, smallReq) ==
    [target \in Targets(largeReq) \cup Targets(smallReq) |->
        [large |-> IF target \in Targets(largeReq)
                   THEN UrlOf(largeReq, target) ELSE NoThumb,
         small |-> IF target \in Targets(smallReq)
                   THEN UrlOf(smallReq, target) ELSE NoThumb]]

\* maps.push({id: map.id, name: map.display_name, smallThumb, largeThumb, ...})
ToStrafesMap(map, assetToThumb) ==
    LET known == map.thumbnail # 0 /\ map.thumbnail \in DOMAIN assetToThumb
    IN  [id |-> map.id,
         name |-> map.display_name,
         smallThumb |-> IF known THEN assetToThumb[map.thumbnail].small ELSE NoThumb,
         largeThumb |-> IF known THEN assetToThumb[map.thumbnail].large ELSE NoThumb]

PushMaps(acc, data, assetToThumb) ==
    acc \o [j \in 1..Len(data) |-> ToStrafesMap(data[j], assetToThumb)]

\* !v for what the program tests this way: a response, or the array loadMaps
\* returns.  An array, empty or not, is truthy.
IsFalsy(v) == v = Undefined

(***************************************************************************)
(* The tables and the statements run on them.  A statement that breaks a   *)
(* key or a foreign key of the schema is rejected as a whole.              *)
(***************************************************************************)
\* What a statement yields: the table after it, or a rejection.
Rejected == [ok |-> FALSE, table |-> {}]
Done(tbl) == [ok |-> TRUE, table |-> tbl]

UserIds(tbl) == {u.user_id : u \in tbl}
MapIds(tbl) == {m.map_id : m \in tbl}

\* UNIQUE INDEX map_index (map_id, game, style, course)
SlotOf(row) == <<row.map_id, row.game, row.style, row.course>>

\* FOREIGN KEY (user_id) REFERENCES users, FOREIGN KEY (map_id) REFERENCES maps
FkHolds(row, userTbl, mapTbl) ==
    row.user_id \in UserIds(userTbl) /\ row.map_id \in MapIds(mapTbl)

\* A loop that stops after the first user it has pushed.
UserRowsOfFirst(w, userIdSet) ==
    IF w = <<>> THEN <<>>
    ELSE <<[user_id |-> Head(w).userId, username |-> Head(w).username]>>

\* insertUsers: the first (userId, username) of every user, in order.
RECURSIVE UserRows(_, _)
UserRows(w, userIdSet) ==
    IF w = <<>> THEN <<>>
    ELSE LET wr == Head(w) IN
         IF wr.userId \in userIdSet
         THEN UserRows(Tail(w), userIdSet)
         ELSE <<[user_id |-> wr.userId, username |-> wr.username]>>
              \o UserRows(Tail(w), userIdSet \cup {wr.userId})

\* INSERT IGNORE INTO users: a row whose user_id is stored is dropped.
RECURSIVE InsertIgnoreUsers(_, _)
InsertIgnoreUsers(tbl, rows) ==
    IF rows = <<>> THEN tbl
    ELSE LET row == Head(rows) IN
         InsertIgnoreUsers(IF row.user_id \in UserIds(tbl) THEN tbl ELSE tbl \cup {row},
                           Tail(rows))

\* INSERT INTO users ... ON DUPLICATE KEY UPDATE username=new.username
RECURSIVE UpsertUsers(_, _)
UpsertUsers(tbl, rows) ==
    IF rows = <<>> THEN tbl
    ELSE LET row == Head(rows) IN
         UpsertUsers({u \in tbl : u.user_id # row.user_id} \cup {row}, Tail(rows))

\* wrs.map((record) => [record.timeId, record.userId, record.mapId, ...])
WrRow(record) ==
    [time_id |-> record.timeId,
     user_id |-> record.userId,
     map_id |-> record.mapId,
     game |-> record.game,
     style |-> record.style,
     course |-> record.course,
     date |-> record.date,
     time |-> record.time]

WrRows(w) == [j \in 1..Len(w) |-> WrRow(w[j])]

\* The rows of globals a new row collides with: PRIMARY KEY (time_id) or the
\* unique index.
Collisions(tbl, row) ==
    {g \in tbl : g.time_id = row.time_id \/ SlotOf(g) = SlotOf(row)}

\* The insert into a globals table declared without its keys: only the
\* foreign keys are checked.
InsertGlobalsUnkeyed(tbl, rows, userTbl, mapTbl) ==
    IF \E j \in 1..Len(rows) : ~FkHolds(rows[j], userTbl, mapTbl)
    THEN Rejected
    ELSE Done(tbl \cup {rows[j] : j \in 1..Len(rows)})

\* INSERT INTO globals (...) VALUES ?
RECURSIVE InsertGlobals(_, _, _, _)
InsertGlobals(tbl, rows, userTbl, mapTbl) ==
    IF rows = <<>> THEN Done(tbl)
    ELSE LET row == Head(rows) IN
         IF Collisions(tbl, row) # {} \/ ~FkHolds(row, userTbl, mapTbl)
         THEN Rejected
         ELSE InsertGlobals(tbl \cup {row}, Tail(rows), userTbl, mapTbl)

\* A statement that keeps the stored row when a new row collides with it, as
\* INSERT IGNORE does.
RECURSIVE InsertIgnoreGlobals(_, _, _, _)
InsertIgnoreGlobals(tbl, rows, userTbl, mapTbl) ==
    IF rows = <<>> THEN Done(tbl)
    ELSE LET row == Head(rows) IN
         IF ~FkHolds(row, userTbl, mapTbl) THEN Rejected
         ELSE IF Collisions(tbl, row) # {}
         THEN InsertIgnoreGlobals(tbl, Tail(rows), userTbl, mapTbl)
         ELSE InsertIgnoreGlobals(tbl \cup {row}, Tail(rows), userTbl, mapTbl)

\* INSERT INTO globals (...) VALUES ? AS new ON DUPLICATE KEY UPDATE
\* time_id=new.time_id, ..., time=new.time: a row that collides with one stored
\* row replaces its columns; one that collides with two breaks a key whichever
\* of them is updated.
RECURSIVE UpsertGlobals(_, _, _, _)
UpsertGlobals(tbl, rows, userTbl, mapTbl) ==
    IF rows = <<>> THEN Done(tbl)
    ELSE LET row == Head(rows)
             hit == Collisions(tbl, row)
         IN  IF Cardinality(hit) > 1 \/ ~FkHolds(row, userTbl, mapTbl)
             THEN Rejected
             ELSE UpsertGlobals((tbl \ hit) \cup {row}, Tail(rows), userTbl, mapTbl)

\* maps.map((map) => [map.id, map.name, ..., map.smallThumb, map.largeThumb, ...])
MapRow(map) ==
    [map_id |-> map.id,
     name |-> map.name,
     small_thumb |-> map.smallThumb,
     large_thumb |-> map.largeThumb]

MapRows(loaded) == [j \in 1..Len(loaded) |-> MapRow(loaded[j])]

\* INSERT INTO maps (...) VALUES ?: rejected when a row repeats a stored
\* map_id or the map_id of another row.
InsertMaps(tbl, rows) ==
    IF \/ \E j \in 1..Len(rows) : rows[j].map_id \in MapIds(tbl)
       \/ \E j, k \in 1..Len(rows) : j < k /\ rows[j].map_id = rows[k].map_id
    THEN Rejected
    ELSE Done(tbl \cup {rows[j] : j \in 1..Len(rows)})

\* wrsHaveMapsLoaded: the distinct map ids of the batch, in order.
RECURSIVE DistinctMapIds(_, _)
DistinctMapIds(w, mapIdSet) ==
    IF w = <<>> THEN <<>>
    ELSE IF Head(w).mapId \in mapIdSet
    THEN DistinctMapIds(Tail(w), mapIdSet)
    ELSE <<Head(w).mapId>> \o DistinctMapIds(Tail(w), mapIdSet \cup {Head(w).mapId})

\* A check that never finds the maps loaded: the catalog is refreshed on
\* every run.
NeverLoaded(tbl, w) == FALSE

\* A comparison that only asks that no more rows come back than ids went in.
AtMostAsManyRows(tbl, w) ==
    LET mapIds == DistinctMapIds(w, {})
        rows == {m \in tbl : \E j \in 1..Len(mapIds) : m.map_id = mapIds[j]}
    IN  Cardinality(rows) <= Len(mapIds)

\* SELECT map_id FROM maps WHERE map_id IN (?); rows.length === mapIds.length
WrsHaveMapsLoaded(tbl, w) ==
    LET mapIds == DistinctMapIds(w, {})
        rows == {m \in tbl : \E j \in 1..Len(mapIds) : m.map_id = mapIds[j]}
    IN  Cardinality(rows) = Len(mapIds)

\* connection.query(query, [rows]) writes the list into the statement in place
\* of the ?.  An empty list leaves VALUES or IN () with nothing to name, which
\* the server refuses as a syntax error.
IsRefused(list) == list = <<>>

(***************************************************************************)
(* main().                                                                 *)
(***************************************************************************)
Modes == {"Seed", "Refresh"}
Stopped == {"idle", "exited", "crashed"}

\* A query rejects and nothing catches it: the run ends with exit code 1.
Throw ==
    /\ pc' = "crashed"
    /\ exitCode' = 1

\* A start of the job whose seed run goes to the full fetch without updating
\* the maps first.
MainWithoutMaps(m) ==
    /\ pc \in Stopped
    /\ mode' = m
    /\ success' = TRUE
    /\ exitCode' = "none"
    /\ outage' = FALSE
    /\ faults' = 0
    /\ wrs' = <<>>
    /\ timeIds' = {}
    /\ burstRemaining' = BurstSentinel
    /\ page' = 1
    /\ hasMore' = TRUE
    /\ inFlight' = 0
    /\ idx' = 0
    /\ mapCursor' = 1
    /\ mapsLoaded' = <<>>
    /\ mapData' = <<>>
    /\ loadResult' = <<>>
    /\ requested' = <<>>
    /\ fetched' = {}
    /\ arrived' = <<>>
    /\ roundHeaders' = {}
    /\ log' = <<>>
    /\ pc' = IF m = "Seed" THEN "seed_loadAllWRs" ELSE "rf_fetch"
    /\ UNCHANGED <<envVars, dbVars>>

\* One start of the job: the mode is read from argv, the three CREATE TABLE IF
\* NOT EXISTS find their tables, and the mode function is called.
Main(m) ==
    /\ pc \in Stopped
    /\ mode' = m
    /\ success' = TRUE
    /\ exitCode' = "none"
    /\ outage' = FALSE
    /\ faults' = 0
    /\ wrs' = <<>>
    /\ timeIds' = {}
    /\ burstRemaining' = BurstSentinel
    /\ page' = 1
    /\ hasMore' = TRUE
    /\ inFlight' = 0
    /\ idx' = 0
    /\ mapCursor' = 1
    /\ mapsLoaded' = <<>>
    /\ mapData' = <<>>
    /\ loadResult' = <<>>
    /\ requested' = <<>>
    /\ fetched' = {}
    /\ arrived' = <<>>
    /\ roundHeaders' = {}
    /\ log' = <<>>
    /\ pc' = IF m = "Seed" THEN "um_loadMaps" ELSE "rf_fetch"
    /\ UNCHANGED <<envVars, dbVars>>

\* await connection.end(); process.exitCode = success ? 0 : 1
Exit ==
    /\ pc = "main_end"
    /\ exitCode' = IF success THEN 0 ELSE 1
    /\ pc' = "exited"
    /\ UNCHANGED <<envVars, netVars, dbVars, mode, success, driverVars, mapVars,
                   histVars>>

\* The network goes down during a run and stays down for the rest of it.
NetworkDown ==
    /\ pc \notin Stopped
    /\ ~outage
    /\ outage' = TRUE
    /\ UNCHANGED <<envVars, faults, dbVars, pc, mainVars, driverVars, mapVars,
                   histVars>>

(***************************************************************************)
(* insertUsers, called by seedWRs and by refreshWRs.                       *)
(***************************************************************************)
InsertUsers ==
    /\ pc \in {"seed_insertUsers", "rf_insertUsers"}
    /\ LET userRows == UserRows(wrs, {}) IN
         IF IsRefused(userRows)
         THEN /\ Throw
              /\ UNCHANGED <<users, log>>
         ELSE /\ users' = UpsertUsers(users, userRows)
              /\ log' = Append(log, "users")
              /\ pc' = IF pc = "seed_insertUsers" THEN "seed_truncate" ELSE "rf_checkMaps"
              /\ UNCHANGED exitCode
    /\ UNCHANGED <<envVars, netVars, maps, globals, mode, success, driverVars,
                   mapVars, requested, fetched, arrived, roundHeaders>>

(***************************************************************************)
(* refreshWRs.                                                             *)
(***************************************************************************)
\* A refresh that treats a failed request for page 1 as a page without
\* records and goes on.
RefreshFetchSkipping ==
    /\ pc = "rf_fetch"
    /\ requested' = <<1>>
    /\ \E response \in Responses(1) :
         IF IsFalsy(response)
         THEN /\ faults' = FaultsAfter(1)
              /\ pc' = "rf_insertUsers"
              /\ UNCHANGED <<wrs, timeIds, fetched, arrived, success>>
         ELSE /\ wrs' = Collect(response.data, <<>>, {}).wrs
              /\ timeIds' = Collect(response.data, <<>>, {}).timeIds
              /\ fetched' = {1}
              /\ arrived' = response.data
              /\ pc' = "rf_insertUsers"
              /\ UNCHANGED <<faults, success>>
    /\ UNCHANGED <<envVars, outage, dbVars, mode, exitCode, burstRemaining, page,
                   hasMore, inFlight, idx, mapVars, roundHeaders, log>>

\* The request for page 1 and the loop that builds wrs.
RefreshFetch ==
    /\ pc = "rf_fetch"
    /\ requested' = <<1>>
    /\ \E response \in Responses(1) :
         IF IsFalsy(response)
         THEN /\ faults' = FaultsAfter(1)
              /\ success' = FALSE
              /\ pc' = "main_end"
              /\ UNCHANGED <<wrs, timeIds, fetched, arrived>>
         ELSE /\ wrs' = Collect(response.data, <<>>, {}).wrs
              /\ timeIds' = Collect(response.data, <<>>, {}).timeIds
              /\ fetched' = {1}
              /\ arrived' = response.data
              /\ pc' = "rf_insertUsers"
              /\ UNCHANGED <<faults, success>>
    /\ UNCHANGED <<envVars, outage, dbVars, mode, exitCode, burstRemaining, page,
                   hasMore, inFlight, idx, mapVars, roundHeaders, log>>

\* if (!(await wrsHaveMapsLoaded(connection, wrs)) && ...
CheckMaps ==
    /\ pc = "rf_checkMaps"
    /\ IF IsRefused(DistinctMapIds(wrs, {}))
       THEN /\ Throw
            /\ UNCHANGED log
       ELSE /\ pc' = IF WrsHaveMapsLoaded(maps, wrs) THEN "rf_upsert" ELSE "um_loadMaps"
            /\ log' = Append(log, IF \A j \in 1..Len(wrs) : wrs[j].mapId \in MapIds(maps)
                                  THEN "maps_loaded" ELSE "maps_missing")
            /\ UNCHANGED exitCode
    /\ UNCHANGED <<envVars, netVars, dbVars, mode, success, driverVars, mapVars,
                   requested, fetched, arrived, roundHeaders>>

\* A refresh that writes its batch the way the seed does, into the emptied
\* table.
UpsertRecordsIntoEmptied ==
    /\ pc = "rf_upsert"
    /\ LET wrRows == WrRows(wrs)
           result == UpsertGlobals({}, wrRows, users, maps)
       IN  IF IsRefused(wrRows) \/ ~result.ok
           THEN /\ Throw
                /\ UNCHANGED <<globals, success, log>>
           ELSE /\ globals' = result.table
                /\ log' = Append(log, "globals")
                /\ success' = TRUE
                /\ pc' = "main_end"
                /\ UNCHANGED exitCode
    /\ UNCHANGED <<envVars, netVars, users, maps, mode, driverVars, mapVars,
                   requested, fetched, arrived, roundHeaders>>

\* INSERT INTO globals ... ON DUPLICATE KEY UPDATE ...; return true
UpsertRecords ==
    /\ pc = "rf_upsert"
    /\ LET wrRows == WrRows(wrs)
           result == UpsertGlobals(globals, wrRows, users, maps)
       IN  IF IsRefused(wrRows) \/ ~result.ok
           THEN /\ Throw
                /\ UNCHANGED <<globals, success, log>>
           ELSE /\ globals' = result.table
                /\ log' = Append(log, "globals")
                /\ success' = TRUE
                /\ pc' = "main_end"
                /\ UNCHANGED exitCode
    /\ UNCHANGED <<envVars, netVars, users, maps, mode, driverVars, mapVars,
                   requested, fetched, arrived, roundHeaders>>

(***************************************************************************)
(* updateMaps and loadMaps, called by seedWRs and by refreshWRs.           *)
(***************************************************************************)
\* let i = 1; const maps = []
LoadMaps ==
    /\ pc = "um_loadMaps"
    /\ mapCursor' = 1
    /\ mapsLoaded' = <<>>
    /\ pc' = "lm_request"
    /\ UNCHANGED <<envVars, netVars, dbVars, mainVars, driverVars, mapData,
                   loadResult, histVars>>

\* One tryGetMaps, ++i, and the two tests that leave the loop.
LoadMapsPage ==
    /\ pc = "lm_request"
    /\ mapCursor' = mapCursor + 1
    /\ \E mapRes \in MapResponses(mapCursor) :
         IF IsFalsy(mapRes)
         THEN /\ faults' = FaultsAfter(1)
              /\ loadResult' = <<>>
              /\ log' = Append(log, "map_fetch_failed")
              /\ pc' = "um_check"
              /\ UNCHANGED mapData
         ELSE /\ UNCHANGED <<faults, log>>
              /\ IF Len(mapRes.data) < 1
                 THEN /\ loadResult' = mapsLoaded
                      /\ pc' = "um_check"
                      /\ UNCHANGED mapData
                 ELSE /\ mapData' = mapRes.data
                      /\ pc' = "lm_thumbs"
                      /\ UNCHANGED loadResult
    /\ UNCHANGED <<envVars, outage, dbVars, mainVars, driverVars, mapsLoaded,
                   requested, fetched, arrived, roundHeaders>>

\* The two thumbnail lookups, the maps pushed, and the test for a short page.
LoadThumbs ==
    /\ pc = "lm_thumbs"
    /\ \E o \in ThumbOutcomes(AssetIds(mapData)) :
         /\ faults' = FaultsAfter(ThumbFailures(o))
         /\ mapsLoaded' = PushMaps(mapsLoaded, mapData, AssetToThumb(o.large, o.small))
    /\ IF Len(mapData) < MapPageSize
       THEN /\ loadResult' = mapsLoaded'
            /\ pc' = "um_check"
       ELSE /\ pc' = "lm_request"
            /\ UNCHANGED loadResult
    /\ UNCHANGED <<envVars, outage, dbVars, mainVars, driverVars, mapCursor,
                   mapData, histVars>>

\* const maps = await loadMaps(); if (!maps) return false; and the caller's
\* return false.
UpdateMapsCheck ==
    /\ pc = "um_check"
    /\ IF IsFalsy(loadResult)
       THEN /\ success' = FALSE
            /\ pc' = "main_end"
       ELSE /\ pc' = "um_truncate"
            /\ UNCHANGED success
    /\ UNCHANGED <<envVars, netVars, dbVars, mode, exitCode, driverVars, mapVars,
                   histVars>>

\* TRUNCATE TABLE maps.  The statement is taken to empty the table whatever
\* rows of globals refer to its rows.
TruncateMaps ==
    /\ pc = "um_truncate"
    /\ maps' = {}
    /\ log' = Append(log, "maps_truncated")
    /\ pc' = "um_insert"
    /\ UNCHANGED <<envVars, netVars, users, globals, mainVars, driverVars,
                   mapVars, requested, fetched, arrived, roundHeaders>>

\* INSERT INTO maps (...) VALUES ?; return true
InsertMapRows ==
    /\ pc = "um_insert"
    /\ LET mapRows == MapRows(loadResult)
           result == InsertMaps(maps, mapRows)
       IN  IF IsRefused(mapRows) \/ ~result.ok
           THEN /\ Throw
                /\ UNCHANGED <<maps, log>>
           ELSE /\ maps' = result.table
                /\ log' = Append(log, "maps")
                /\ pc' = IF mode = "Seed" THEN "seed_loadAllWRs" ELSE "rf_upsert"
                /\ UNCHANGED exitCode
    /\ UNCHANGED <<envVars, netVars, users, globals, mode, success, driverVars,
                   mapVars, requested, fetched, arrived, roundHeaders>>

(***************************************************************************)
(* loadAllWRs, called by seedWRs.                                          *)
(***************************************************************************)
\* const wrs = []; const timeIds = new Set(); let burstRemaining = 999;
\* let page = 1; let hasMore = true
EnterLoadAllWRs ==
    /\ pc = "seed_loadAllWRs"
    /\ wrs' = <<>>
    /\ timeIds' = {}
    /\ burstRemaining' = BurstSentinel
    /\ page' = 1
    /\ hasMore' = TRUE
    /\ pc' = "law_loop"
    /\ UNCHANGED <<envVars, netVars, dbVars, mainVars, inFlight, idx, mapVars,
                   histVars>>

\* The while test, the five tryGetStrafes calls and page += 5, up to the await.
IssueBurst ==
    /\ pc = "law_loop"
    /\ hasMore
    /\ page <= MaxPage
    /\ inFlight' = BurstSize
    /\ requested' = requested \o [i \in 1..BurstSize |-> page + i - 1]
    /\ roundHeaders' = {}
    /\ page' = NextCursor(page)
    /\ pc' = "law_await"
    /\ UNCHANGED <<envVars, netVars, dbVars, mainVars, wrs, timeIds,
                   burstRemaining, hasMore, idx, mapVars, fetched, arrived, log>>

\* One request settles and the driver goes on at once, as with Promise.race.
SettleFirst ==
    /\ pc = "law_await"
    /\ inFlight > 0
    /\ inFlight' = inFlight - 1
    /\ pc' = "law_process"
    /\ idx' = 0
    /\ UNCHANGED <<envVars, netVars, dbVars, mainVars, wrs, timeIds,
                   burstRemaining, page, hasMore, mapVars, histVars>>

\* One request settles; Promise.all resolves with the last one.
Settle ==
    /\ pc = "law_await"
    /\ inFlight > 0
    /\ inFlight' = inFlight - 1
    /\ pc' = IF inFlight' = 0 THEN "law_process" ELSE "law_await"
    /\ idx' = 0
    /\ UNCHANGED <<envVars, netVars, dbVars, mainVars, wrs, timeIds,
                   burstRemaining, page, hasMore, mapVars, histVars>>

\* One pass of the loop with `break` where the code has `continue` on a page
\* of zero records: the rest of the burst is dropped.
ProcessResponseBreaking ==
    /\ pc = "law_process"
    /\ idx < BurstSize
    /\ \E response \in Responses(PromisePage(idx)) :
         IF IsFalsy(response)
         THEN /\ faults' = FaultsAfter(1)
              /\ idx' = idx + 1
              /\ UNCHANGED <<wrs, timeIds, burstRemaining, hasMore, fetched, arrived,
                             roundHeaders>>
         ELSE /\ burstRemaining' = TrackBurst(response.headers, burstRemaining)
              /\ roundHeaders' = roundHeaders \cup {response.headers}
              /\ fetched' = fetched \cup {PromisePage(idx)}
              /\ arrived' = arrived \o response.data
              /\ UNCHANGED faults
              /\ IF Len(response.data) <= 0
                 THEN /\ hasMore' = FALSE
                      /\ idx' = BurstSize
                      /\ UNCHANGED <<wrs, timeIds>>
                 ELSE /\ wrs' = Collect(response.data, wrs, timeIds).wrs
                      /\ timeIds' = Collect(response.data, wrs, timeIds).timeIds
                      /\ idx' = idx + 1
                      /\ UNCHANGED hasMore
    /\ UNCHANGED <<envVars, outage, dbVars, pc, mainVars, page, inFlight,
                   mapVars, requested, log>>

\* One pass of the loop that takes a missing response for the end of the list.
ProcessResponseEndingOnFailure ==
    /\ pc = "law_process"
    /\ idx < BurstSize
    /\ \E response \in Responses(PromisePage(idx)) :
         IF IsFalsy(response)
         THEN /\ faults' = FaultsAfter(1)
              /\ hasMore' = FALSE
              /\ UNCHANGED <<wrs, timeIds, burstRemaining, fetched, arrived,
                             roundHeaders>>
         ELSE /\ burstRemaining' = TrackBurst(response.headers, burstRemaining)
              /\ roundHeaders' = roundHeaders \cup {response.headers}
              /\ fetched' = fetched \cup {PromisePage(idx)}
              /\ arrived' = arrived \o response.data
              /\ UNCHANGED faults
              /\ IF Len(response.data) <= 0
                 THEN /\ hasMore' = FALSE
                      /\ UNCHANGED <<wrs, timeIds>>
                 ELSE /\ wrs' = Collect(response.data, wrs, timeIds).wrs
                      /\ timeIds' = Collect(response.data, wrs, timeIds).timeIds
                      /\ UNCHANGED hasMore
    /\ idx' = idx + 1
    /\ UNCHANGED <<envVars, outage, dbVars, pc, mainVars, page, inFlight,
                   mapVars, requested, log>>

\* One pass of `for (const response of resolved)`.  What the request resolved
\* to is drawn where the loop reads it.
ProcessResponse ==
    /\ pc = "law_process"
    /\ idx < BurstSize
    /\ \E response \in Responses(PromisePage(idx)) :
         IF IsFalsy(response)
         THEN /\ faults' = FaultsAfter(1)
              /\ UNCHANGED <<wrs, timeIds, burstRemaining, hasMore, fetched, arrived,
                             roundHeaders>>
         ELSE /\ burstRemaining' = TrackBurst(response.headers, burstRemaining)
              /\ roundHeaders' = roundHeaders \cup {response.headers}
              /\ fetched' = fetched \cup {PromisePage(idx)}
              /\ arrived' = arrived \o response.data
              /\ UNCHANGED faults
              /\ IF Len(response.data) <= 0
                 THEN /\ hasMore' = FALSE
                      /\ UNCHANGED <<wrs, timeIds>>
                 ELSE /\ wrs' = Collect(response.data, wrs, timeIds).wrs
                      /\ timeIds' = Collect(response.data, wrs, timeIds).timeIds
                      /\ UNCHANGED hasMore
    /\ idx' = idx + 1
    /\ UNCHANGED <<envVars, outage, dbVars, pc, mainVars, page, inFlight,
                   mapVars, requested, log>>

\* The end of a round under the rule of the map loop: the driver also leaves
\* when a page of the round came back short of a full page.
EndRoundOnShortPage ==
    /\ pc = "law_process"
    /\ idx = BurstSize
    /\ IF \/ ~hasMore
          \/ \E i \in 0..(BurstSize - 1) :
                /\ PromisePage(i) \in fetched
                /\ Len(PageData(PromisePage(i))) < MapPageSize
       THEN /\ pc' = "seed_insertUsers"
            /\ UNCHANGED burstRemaining
       ELSE IF NeedsCooldown(burstRemaining)
       THEN /\ burstRemaining' = BurstSentinel
            /\ pc' = "law_sleep"
       ELSE /\ pc' = "law_loop"
            /\ UNCHANGED burstRemaining
    /\ UNCHANGED <<envVars, netVars, dbVars, mainVars, wrs, timeIds, page,
                   hasMore, inFlight, idx, mapVars, histVars>>

\* if (!hasMore) break; if (burstRemaining < 70) { burstRemaining = 999; sleep }
EndRound ==
    /\ pc = "law_process"
    /\ idx = BurstSize
    /\ IF ~hasMore
       THEN /\ pc' = "seed_insertUsers"
            /\ UNCHANGED burstRemaining
       ELSE IF NeedsCooldown(burstRemaining)
       THEN /\ burstRemaining' = BurstSentinel
            /\ pc' = "law_sleep"
       ELSE /\ pc' = "law_loop"
            /\ UNCHANGED burstRemaining
    /\ UNCHANGED <<envVars, netVars, dbVars, mainVars, wrs, timeIds, page,
                   hasMore, inFlight, idx, mapVars, histVars>>

\* await sleep(1000 * 60) returns.
WakeUp ==
    /\ pc = "law_sleep"
    /\ pc' = "law_loop"
    /\ UNCHANGED <<envVars, netVars, dbVars, mainVars, driverVars, mapVars,
                   histVars>>

(***************************************************************************)
(* seedWRs after loadAllWRs.                                               *)
(***************************************************************************)
\* TRUNCATE TABLE globals
TruncateGlobals ==
    /\ pc = "seed_truncate"
    /\ globals' = {}
    /\ log' = Append(log, "globals_truncated")
    /\ pc' = "seed_insert"
    /\ UNCHANGED <<envVars, netVars, users, maps, mainVars, driverVars, mapVars,
                   requested, fetched, arrived, roundHeaders>>

\* INSERT INTO globals (...) VALUES ?; return true
InsertRecords ==
    /\ pc = "seed_insert"
    /\ LET wrRows == WrRows(wrs)
           result == InsertGlobals(globals, wrRows, users, maps)
       IN  IF IsRefused(wrRows) \/ ~result.ok
           THEN /\ Throw
                /\ UNCHANGED <<globals, success, log>>
           ELSE /\ globals' = result.table
                /\ log' = Append(log, "globals")
                /\ success' = TRUE
                /\ pc' = "main_end"
                /\ UNCHANGED exitCode
    /\ UNCHANGED <<envVars, netVars, users, maps, mode, driverVars, mapVars,
                   requested, fetched, arrived, roundHeaders>>

(***************************************************************************)
(* The specification.                                                      *)
(***************************************************************************)
Init ==
    /\ wrSource \in RunSources
    /\ mapSource \in RunMapSources
    /\ outage = FALSE
    /\ faults = 0
    /\ users = {}
    /\ maps = {}
    /\ globals = {}
    /\ pc = "idle"
    /\ mode = "Refresh"
    /\ success = TRUE
    /\ exitCode = "none"
    /\ wrs = <<>>
    /\ timeIds = {}
    /\ burstRemaining = BurstSentinel
    /\ page = 1
    /\ hasMore = TRUE
    /\ inFlight = 0
    /\ idx = 0
    /\ mapCursor = 1
    /\ mapsLoaded = <<>>
    /\ mapData = <<>>
    /\ loadResult = <<>>
    /\ requested = <<>>
    /\ fetched = {}
    /\ arrived = <<>>
    /\ roundHeaders = {}
    /\ log = <<>>

Next ==
    \/ \E m \in Modes : Main(m)
    \/ Exit
    \/ NetworkDown
    \/ InsertUsers
    \/ RefreshFetch
    \/ CheckMaps
    \/ UpsertRecords
    \/ LoadMaps
    \/ LoadMapsPage
    \/ LoadThumbs
    \/ UpdateMapsCheck
    \/ TruncateMaps
    \/ InsertMapRows
    \/ EnterLoadAllWRs
    \/ IssueBurst
    \/ Settle
    \/ ProcessResponse
    \/ EndRound
    \/ WakeUp
    \/ TruncateGlobals
    \/ InsertRecords

Spec == Init /\ [][Next]_vars

(***************************************************************************)
(* loadAllWRs alone: the first seed run of the job has loaded the small    *)
(* catalog into the maps table and calls loadAllWRs, on any of WRSources.  *)
(***************************************************************************)
SeedCatalog == CatalogPage(SmallCatalog, 1)

SeedLoaded ==
    PushMaps(<<>>, SeedCatalog,
             AssetToThumb(ThumbResponse(AssetIds(SeedCatalog), "420x420"),
                          ThumbResponse(AssetIds(SeedCatalog), "75x75")))

DriverInit ==
    /\ wrSource \in WRSources
    /\ mapSource = MapSource(SmallCatalog)
    /\ outage = FALSE
    /\ faults = 0
    /\ users = {}
    /\ maps = InsertMaps({}, MapRows(SeedLoaded)).table
    /\ globals = {}
    /\ pc = "seed_loadAllWRs"
    /\ mode = "Seed"
    /\ success = TRUE
    /\ exitCode = "none"
    /\ wrs = <<>>
    /\ timeIds = {}
    /\ burstRemaining = BurstSentinel
    /\ page = 1
    /\ hasMore = TRUE
    /\ inFlight = 0
    /\ idx = 0
    /\ mapCursor = 2
    /\ mapsLoaded = SeedLoaded
    /\ mapData = SeedCatalog
    /\ loadResult = SeedLoaded
    /\ requested = <<>>
    /\ fetched = {}
    /\ arrived = <<>>
    /\ roundHeaders = {}
    /\ log = <<"maps_truncated", "maps">>

DriverStep ==
    \/ EnterLoadAllWRs
    \/ IssueBurst
    \/ Settle
    \/ ProcessResponse
    \/ EndRound
    \/ WakeUp

DriverNext ==
    \/ DriverStep
    \/ NetworkDown

DriverSpec == DriverInit /\ [][DriverNext]_vars

\* The event loop runs a continuation that is ready, a request settles within
\* its timeout, and the sleep timer fires.
DriverFair == DriverSpec /\ WF_vars(DriverStep)

(***************************************************************************)
(* The two pagination loops side by side: a behaviour is either loadAllWRs *)
(* as above, or loadMaps alone, called by updateMaps at the start of the   *)
(* first seed run, on a catalog that ends with a short page, with a full   *)
(* page, or with a short page after a full one.                            *)
(***************************************************************************)
LoadMapsSources ==
    {MapSource(n) : n \in {SmallCatalog, MapPageSize, MapPageSize + SmallCatalog}}

LoadMapsInit ==
    /\ wrSource = WRSource(1, FALSE, FALSE)
    /\ mapSource \in LoadMapsSources
    /\ outage = FALSE
    /\ faults = 0
    /\ users = {}
    /\ maps = {}
    /\ globals = {}
    /\ pc = "um_loadMaps"
    /\ mode = "Seed"
    /\ success = TRUE
    /\ exitCode = "none"
    /\ wrs = <<>>
    /\ timeIds = {}
    /\ burstRemaining = BurstSentinel
    /\ page = 1
    /\ hasMore = TRUE
    /\ inFlight = 0
    /\ idx = 0
    /\ mapCursor = 1
    /\ mapsLoaded = <<>>
    /\ mapData = <<>>
    /\ loadResult = <<>>
    /\ requested = <<>>
    /\ fetched = {}
    /\ arrived = <<>>
    /\ roundHeaders = {}
    /\ log = <<>>

LoadMapsStep ==
    \/ LoadMaps
    \/ LoadMapsPage
    \/ LoadThumbs

PaginationInit == DriverInit \/ LoadMapsInit

PaginationNext ==
    \/ DriverNext
    \/ LoadMapsStep

PaginationSpec == PaginationInit /\ [][PaginationNext]_vars

(***************************************************************************)
(* Properties of loadAllWRs, checked on DriverSpec.                        *)
(***************************************************************************)
Range(seq) == {seq[j] : j \in 1..Len(seq)}

\* K: the first page of the source with zero records.
FirstEmptyPage ==
    CHOOSE K \in DOMAIN wrSource :
        wrSource[K] = <<>> /\ \A j \in 1..(K - 1) : wrSource[j] # <<>>

\* loadAllWRs has returned its result to seedWRs.
Returned == pc = "seed_insertUsers"

Occurrences(w, t) == Cardinality({j \in 1..Len(w) : w[j].timeId = t})

\* The result holds every record of page p exactly once.
HeldOnce(p) ==
    \A j \in 1..Len(PageData(p)) : Occurrences(wrs, PageData(p)[j].id) = 1

\* C1 as the spec states it: when the driver returns, its result holds every
\* record of the pages 1..K-1 exactly once.
C1_EveryPageCollected ==
    Returned => \A p \in 1..(FirstEmptyPage - 1) : HeldOnce(p)

\* C1 as the code has it: when the driver returns, every page 1..K-1 has been
\* requested, the result holds exactly once every record of those of them
\* whose request did not fail, and it holds nothing but records of pages that
\* were fetched.
C1_FetchedPagesCollected ==
    Returned =>
        /\ \A p \in 1..(FirstEmptyPage - 1) :
              /\ p \in Range(requested)
              /\ p \in fetched => HeldOnce(p)
        /\ \A j \in 1..Len(wrs) :
              /\ Occurrences(wrs, wrs[j].timeId) = 1
              /\ \E p \in fetched :
                    \E k \in 1..Len(PageData(p)) : PageData(p)[k].id = wrs[j].timeId

\* The driver has returned from a source of several pages after the request
\* for one of them failed: a record of the failed page is missing, the
\* records of a fetched page are held.
C1_Witness ==
    /\ Returned
    /\ \E p, q \in 1..(FirstEmptyPage - 1) :
          /\ p \notin fetched /\ ~HeldOnce(p)
          /\ q \in fetched /\ HeldOnce(q)

C2_ReturnsOnceExhausted ==
    /\ (~hasMore) ~> Returned
    /\ [](Returned => ~hasMore)

\* The requested pages whose response the loop over resolved has handled.
Processed ==
    LET pending == IF pc = "law_await" THEN BurstSize
                   ELSE IF pc = "law_process" THEN BurstSize - idx
                   ELSE 0
    IN  SubSeq(requested, 1, Len(requested) - pending)

\* The records of the fetched pages among the given ones, page after page.
RECURSIVE ArrivalOrder(_)
ArrivalOrder(pages) ==
    IF pages = <<>> THEN <<>>
    ELSE (IF Head(pages) \in fetched THEN PageData(Head(pages)) ELSE <<>>)
         \o ArrivalOrder(Tail(pages))

\* The positions of arrived that hold the first occurrence of their id.
KeptIndexes ==
    {j \in 1..Len(arrived) : \A k \in 1..(j - 1) : arrived[k].id # arrived[j].id}

NthKept(n) ==
    CHOOSE i \in KeptIndexes : Cardinality({k \in KeptIndexes : k <= i}) = n

\* C3: at every point of a run the collection holds no two records with the
\* same timeId; it is the first occurrence of every id that has arrived, in
\* arrival order, where arrival is page order within a burst and burst order
\* across rounds; later occurrences are dropped.
C3_FirstOccurrencesInOrder ==
    /\ \A i, j \in 1..Len(wrs) : i # j => wrs[i].timeId # wrs[j].timeId
    /\ arrived = ArrivalOrder(Processed)
    /\ Len(wrs) = Cardinality(KeptIndexes)
    /\ \A n \in 1..Len(wrs) : wrs[n] = ToRecord(arrived[NthKept(n)])
    /\ timeIds = {arrived[j].id : j \in 1..Len(arrived)}

\* Two rounds have been processed and records were dropped that repeat an id
\* of the same page (page 1), of another page of the burst (page 2) and of
\* the burst before (page 6).
C3_Witness ==
    /\ Returned
    /\ {1, 2, 5, 6} \subseteq fetched
    /\ Len(wrs) = 6
    /\ Len(arrived) > Len(wrs)

\* The burst values the responses of the current round have reported.
RoundValues == {ToNumber(h) : h \in roundHeaders \ {NoHeader}}

\* The round's responses have all been handled and its last step is due.
RoundHandled == pc = "law_process" /\ idx = BurstSize

\* C4: when a round's responses are handled, the driver goes to sleep, with
\* its tracker reset to 999, if the smallest burst value the round reported is
\* below 70 and no page of it was empty; otherwise it does not sleep.  While
\* it sleeps no request is issued, and the next round starts only after it.
C4_CooldownDecision ==
    [][/\ (RoundHandled /\ pc' # pc) =>
            IF hasMore /\ \E v \in RoundValues : v < 70
            THEN pc' = "law_sleep" /\ burstRemaining' = 999
            ELSE pc' # "law_sleep"
       /\ pc' = "law_sleep" => RoundHandled \/ pc = "law_sleep"
       /\ pc = "law_sleep" =>
            /\ requested' = requested
            /\ burstRemaining' = 999
            /\ pc' \in {"law_sleep", "law_loop"}
       /\ requested' # requested => pc = "law_loop"]_vars

\* The driver sleeps after a round that reported 69 and saw no empty page.
C4_Witness ==
    /\ pc = "law_sleep"
    /\ 69 \in RoundValues
    /\ hasMore
    /\ burstRemaining = 999

\* C7: in one run of the driver the pages requested are 1, 2, 3, ... with none
\* repeated; the cursor starts at 1, never decreases, and moves only in the
\* step that issues a burst, by 5, before any response of the burst is awaited;
\* no other step (a failed request, an empty page) issues a request.
C7_EachPageOnce ==
    [][/\ \A j \in 1..Len(requested') : requested'[j] = j
       /\ page' >= page
       /\ (requested = <<>> /\ requested' # <<>>) => page = 1
       /\ requested' # requested =>
            /\ requested' = requested \o <<page, page + 1, page + 2, page + 3, page + 4>>
            /\ page' = page + 5
            /\ pc' = "law_await" /\ inFlight' = 5
       /\ requested' = requested => page' = page \/ pc = "seed_loadAllWRs"]_vars

\* A second burst is in flight after a request of the first burst failed.
C7_Witness ==
    /\ pc = "law_await"
    /\ requested = <<1, 2, 3, 4, 5, 6, 7, 8, 9, 10>>
    /\ page = 11
    /\ \E p \in 1..5 : p \notin fetched

\* C8: a burst is issued only when no request is in flight, every response of
\* the burst before has been handled, the cooldown decision has been taken
\* and its sleep is over; and while a request is in flight the seen-id set,
\* the capacity tracker and the collection do not change.
C8_BurstsSequential ==
    [][/\ requested' # requested =>
            /\ pc = "law_loop" /\ inFlight = 0
            /\ Processed = requested
            /\ requested # <<>> => idx = BurstSize
            /\ burstRemaining >= 70
       /\ inFlight > 0 => UNCHANGED <<timeIds, burstRemaining, wrs, hasMore>>
       /\ inFlight' > 0 => pc' = "law_await"]_vars

\* Some requests of the second burst have settled and others are in flight,
\* with records of the first burst collected.
C8_Witness ==
    /\ pc = "law_await"
    /\ inFlight \in 1..4
    /\ Len(requested) = 10
    /\ timeIds # {}

(***************************************************************************)
(* Properties of whole runs, checked on Spec.                              *)
(***************************************************************************)
\* In this run, a happened and b had not happened before it.
Logged(a) == a \in Range(log)
LoggedBefore(a, b) ==
    \E j \in 1..Len(log) : log[j] = a /\ \A k \in 1..(j - 1) : log[k] # b

\* C5: in a refresh run whose batch referred to a map that was not in the
\* maps table, the record write comes only after updateMaps has rewritten the
\* maps table, and at the write, and after it, every record of the batch has
\* its map in maps and its user in users.
C5_MapsRefreshedBeforeWrite ==
    mode = "Refresh" =>
        /\ (Logged("maps_missing") /\ (pc = "rf_upsert" \/ Logged("globals")))
              => LoggedBefore("maps", "globals")
        /\ (pc = "rf_upsert" \/ Logged("globals"))
              => \A j \in 1..Len(wrs) : FkHolds(WrRow(wrs[j]), users, maps)

\* A refresh run found a map missing, rewrote the maps table and then wrote
\* its records.
C5_Witness ==
    /\ mode = "Refresh"
    /\ log = <<"users", "maps_missing", "maps_truncated", "maps", "globals">>
    /\ globals # {}

\* C6 as the spec states it: once a map page request of the run has failed and
\* updateMaps has looked at what loadMaps returned, the mode function has
\* returned false, the run ends with exit code 1, and no record row is
\* written.
C6_FailedMapFetchReportsFailure ==
    (Logged("map_fetch_failed") /\ pc # "um_check") =>
        /\ success = FALSE
        /\ pc \in {"main_end", "exited"}
        /\ pc = "exited" => exitCode = 1
        /\ ~Logged("globals")

\* The mode function has returned to main.
ModeReturned == pc \in {"main_end", "exited"}

\* The one record-page request of a refresh run has failed.
RefreshFetchFailed == mode = "Refresh" /\ requested = <<1>> /\ fetched = {}

\* A record-page request of a seed run has failed and been handled.
SeedFetchFailed == mode = "Seed" /\ \E p \in Range(Processed) : p \notin fetched

Incoming == Range(WrRows(wrs))

\* PRIMARY KEY (time_id) and UNIQUE INDEX map_index hold of a globals table.
GlobalsKeysHold(tbl) ==
    \A g, h \in tbl : g # h => g.time_id # h.time_id /\ SlotOf(g) # SlotOf(h)

\* C10: the upsert of a refresh run leaves globals with one row per timeId and
\* one per (mapId, game, style, course); every stored row that an incoming row
\* meets on its timeId or its slot is replaced by the incoming row and every
\* other stored row is kept; and running the same batch again, in a second
\* refresh or as the same statement once more, changes nothing.
C10_RefreshIdempotent ==
    [][(pc = "rf_upsert" /\ pc' = "main_end") =>
        /\ globals' = {g \in globals : \A r \in Incoming : Collisions({g}, r) = {}}
                         \cup Incoming
        /\ GlobalsKeysHold(globals')
        /\ Incoming \subseteq globals => globals' = globals
        /\ LET again == UpsertGlobals(globals', WrRows(wrs), users, maps)
           IN  again.ok /\ again.table = globals']_vars

\* The second of two refreshes with the same batch is about to write: every
\* incoming row is stored already, beside a row of an earlier seed.
C10_Witness ==
    /\ pc = "rf_upsert"
    /\ Incoming # {}
    /\ Incoming \subseteq globals
    /\ Incoming # globals
    /\ Logged("maps_loaded")


\* The write of a seed run (TRUNCATE TABLE globals, then the INSERT) is over,
\* by a return or by a rejection.
SeedWriteOver ==
    mode = "Seed" /\ Logged("globals_truncated") /\ pc # "seed_insert"

\* C11 as the spec states it: whatever globals held before, once the write of
\* a seed run is over the table holds exactly the deduplicated fetched
\* records, as many rows as records, so that seeding again from the same
\* input stores the same set.
C11_SeedStoresFetchedSet ==
    SeedWriteOver => globals = Incoming /\ Cardinality(globals) = Len(wrs)

\* What the code gives: the table after the write of a seed run depends on the
\* fetched records alone.  It is their rows when the INSERT is accepted and
\* empty when it is rejected, which it is when two of them are on one slot.
C11_SeedWriteDependsOnFetchOnly ==
    SeedWriteOver =>
        IF InsertGlobals({}, WrRows(wrs), users, maps).ok /\ wrs # <<>>
        THEN globals = Incoming /\ Cardinality(globals) = Len(wrs) /\ ModeReturned
        ELSE globals = {} /\ pc = "crashed"


\* The statements that write a table, by the tag the log keeps of them.
MapWrites == {"maps_truncated", "maps"}
RecordWrites == {"globals_truncated", "globals"}

\* In this run no statement tagged in later has run before one tagged in
\* earlier.
NeverBefore(later, earlier) ==
    \A j, k \in 1..Len(log) : j < k => ~(log[j] \in later /\ log[k] \in earlier)

\* C12 as the spec states it: in every run the users are written, then the
\* maps, then the records.
C12_UsersMapsRecords ==
    /\ NeverBefore(MapWrites, {"users"})
    /\ NeverBefore(RecordWrites, MapWrites \cup {"users"})

\* C12 as the code has it: a refresh run writes users, then maps (when it
\* updates them), then records; a seed run writes maps, then users, then
\* records; in neither does a record write come before a user or map write.
C12_RecordsLast ==
    /\ NeverBefore(RecordWrites, MapWrites \cup {"users"})
    /\ mode = "Refresh" => NeverBefore(MapWrites, {"users"})
    /\ mode = "Seed" =>
          /\ NeverBefore({"users"}, MapWrites)
          /\ Logged("users") => LoggedBefore("maps", "users")
          /\ Logged("globals_truncated") => LoggedBefore("users", "globals_truncated")
    /\ (mode = "Refresh" /\ Logged("globals")) => LoggedBefore("users", "globals")

\* A seed run has written the maps, then the users, then the records.
C12_Witness ==
    /\ mode = "Seed"
    /\ log = <<"maps_truncated", "maps", "users", "globals_truncated", "globals">>


\* The statement that writes the record batch is due or has run.
RecordWriteDue == pc \in {"seed_insert", "rf_upsert"} \/ Logged("globals")

\* C13: in a seed run as in a refresh run, when the statement that writes the
\* record batch is due, and after it has run, the user of every record of the
\* batch is in users and its map is in maps, and the user write of the run
\* has been done.
C13_ReferencesPresentAtWrite ==
    RecordWriteDue =>
        /\ \A j \in 1..Len(wrs) : FkHolds(WrRow(wrs[j]), users, maps)
        /\ Logged("users")

\* A seed run has written a batch of records of two users.
C13_Witness ==
    /\ mode = "Seed"
    /\ Logged("globals")
    /\ Cardinality({wrs[j].userId : j \in 1..Len(wrs)}) = 2
    /\ globals = Incoming


(***************************************************************************)
(* The page of zero records, checked on DriverSpec.                        *)
(***************************************************************************)
\* No request of the fetch has failed so far.
NoneFailed == faults = 0 /\ ~outage

\* C14: a page of zero records marks the fetch exhausted and nothing else.
\* Every page whose response was handled has its records in the result, those
\* after the empty page of their burst as well; when the driver returns with
\* no request failed, the response of every page of every burst was handled;
\* a step never takes a record out of the result; and once the fetch is marked
\* exhausted no page is requested any more.
C14_EmptyPageEndsFetchOnly ==
    /\ [](\A p \in fetched :
             /\ HeldOnce(p)
             /\ PageData(p) = <<>> => ~hasMore)
    /\ []((Returned /\ NoneFailed) => Range(requested) \subseteq fetched)
    /\ [][/\ Len(wrs') >= Len(wrs)
          /\ SubSeq(wrs', 1, Len(wrs)) = wrs
          /\ ~hasMore => requested' = requested]_vars

\* The driver has returned after a second burst whose second page was empty:
\* the records of the page before it, of the page after it and of a page of
\* the first burst are in the result, and ten pages were requested in all.
C14_Witness ==
    /\ Returned
    /\ FirstEmptyPage = 7
    /\ {1, 6, 7, 8} \subseteq fetched
    /\ PageData(8) # <<>>
    /\ HeldOnce(1) /\ HeldOnce(6) /\ HeldOnce(8)
    /\ Len(requested) = 2 * BurstSize


\* The step handles the response of a request that failed: the loop moves to
\* the next response and the page is not among the fetched ones.
HandlesMissing ==
    /\ pc = "law_process"
    /\ idx' = idx + 1
    /\ PromisePage(idx) \notin fetched'

\* C15: handling a missing response changes neither hasMore nor
\* burstRemaining nor timeIds nor wrs nor the page cursor, and the loop stays
\* in the burst, at the next response.
C15_MissingResponseChangesNothing ==
    [][HandlesMissing =>
          /\ hasMore' = hasMore
          /\ burstRemaining' = burstRemaining
          /\ timeIds' = timeIds
          /\ wrs' = wrs
          /\ page' = page
          /\ roundHeaders' = roundHeaders
          /\ pc' = "law_process"]_vars

\* A response of the burst was missing and the one after it was handled: its
\* records are in the result and the fetch is not marked exhausted.
C15_Witness ==
    /\ pc = "law_process"
    /\ hasMore
    /\ \E i \in 0..(idx - 2) :
          /\ PromisePage(i) \notin fetched
          /\ PromisePage(i + 1) \in fetched
          /\ PageData(PromisePage(i + 1)) # <<>>
          /\ HeldOnce(PromisePage(i + 1))


(***************************************************************************)
(* The users table over any sequence of runs, checked on Spec.             *)
(***************************************************************************)
\* The username the batch carries for user u: that of the first record of u.
IncomingName(u) ==
    wrs[CHOOSE j \in 1..Len(wrs) :
            wrs[j].userId = u /\ \A k \in 1..(j - 1) : wrs[k].userId # u].username

\* The step is the user write of a run.
WritesUsers == pc \in {"seed_insertUsers", "rf_insertUsers"} /\ log' # log

\* C16: users has one row per userId in every state; no step of any run takes
\* a userId out of it; the user write of a run leaves every user of the batch
\* with the username the batch carries, whatever was stored, and every other
\* row as it was; no other step changes the table.
C16_UsersOnlyGrow ==
    /\ [](\A u, v \in users : u.user_id = v.user_id => u = v)
    /\ [][/\ UserIds(users) \subseteq UserIds(users')
          /\ IF WritesUsers
             THEN \A r \in users' :
                     IF \E j \in 1..Len(wrs) : wrs[j].userId = r.user_id
                     THEN r.username = IncomingName(r.user_id)
                     ELSE r \in users
             ELSE users' = users]_vars

\* A seed run whose first page failed has written user 2 under the new name,
\* while globals still holds the row of an earlier run that had stored user 2
\* under the old one.
C16_Witness ==
    /\ mode = "Seed"
    /\ pc = "seed_truncate"
    /\ [user_id |-> 2, username |-> "renamed"] \in users
    /\ WrRow(ToRecord(ApiRecord(1, FALSE))) \in globals
    /\ Cardinality(users) = 2


(***************************************************************************)
(* The map check of a refresh run, checked on Spec.                        *)
(***************************************************************************)
\* The refresh run has found every map of its batch in the maps table.
RefreshFoundMaps == mode = "Refresh" /\ Logged("maps_loaded")

\* C17: a refresh run that has found every map of its batch in maps does not
\* call updateMaps: it sends no request for a page of the map list (the page
\* counter of loadMaps stays where the start of the run left it), it neither
\* truncates maps nor inserts into it, and no step of it changes the table.
C17_NoRefreshWhenMapsPresent ==
    /\ [](RefreshFoundMaps =>
             /\ mapCursor = 1
             /\ pc \in {"rf_upsert", "main_end", "exited", "crashed"}
             /\ ~Logged("maps_truncated") /\ ~Logged("maps")
             /\ ~Logged("map_fetch_failed"))
    /\ [][RefreshFoundMaps => maps' = maps]_vars

\* A refresh run has found its maps, written its records and ended, with the
\* maps table as a seed run had left it.
C17_Witness ==
    /\ RefreshFoundMaps
    /\ Logged("globals")
    /\ pc = "exited"
    /\ maps # {}
    /\ globals # {}


(***************************************************************************)
(* The thumbnail lookups of loadMaps, checked on Spec.                     *)
(***************************************************************************)
\* The step is the one that takes the two lookups of a page and pushes the
\* page's maps.
PushesPage == pc = "lm_thumbs" /\ pc' # pc

\* How many of the two lookups of the step failed.
LookupsFailed == IF outage THEN 2 ELSE faults' - faults

\* The map pushed for the j-th map of the page.
Pushed(j) == mapsLoaded'[Len(mapsLoaded) + j]

LargeFilled(j) == Pushed(j).largeThumb = <<"420x420", mapData[j].thumbnail>>
SmallFilled(j) == Pushed(j).smallThumb = <<"75x75", mapData[j].thumbnail>>
LargeAbsent(j) == Pushed(j).largeThumb = NoThumb
SmallAbsent(j) == Pushed(j).smallThumb = NoThumb

\* C18: whatever the two thumbnail lookups of a page do, the load goes on and
\* every map of the page is pushed, in order.  A map with a thumbnail asset
\* has both urls when no lookup failed, none when both failed, and when one
\* failed the url of the size that succeeded and none of the size that
\* failed, the same size for every map of the page.  A map without an asset
\* has neither.
C18_ThumbFailureKeepsMaps ==
    [][PushesPage =>
          /\ pc' \in {"lm_request", "um_check"}
          /\ Len(mapsLoaded') = Len(mapsLoaded) + Len(mapData)
          /\ SubSeq(mapsLoaded', 1, Len(mapsLoaded)) = mapsLoaded
          /\ \A j \in 1..Len(mapData) :
                /\ Pushed(j).id = mapData[j].id
                /\ ~HasThumbnail(mapData[j]) => LargeAbsent(j) /\ SmallAbsent(j)
                /\ HasThumbnail(mapData[j]) =>
                      /\ LargeFilled(j) \/ LargeAbsent(j)
                      /\ SmallFilled(j) \/ SmallAbsent(j)
                      /\ LookupsFailed = 0 => LargeFilled(j) /\ SmallFilled(j)
                      /\ LookupsFailed = 2 => LargeAbsent(j) /\ SmallAbsent(j)
                      /\ LookupsFailed = 1 => (LargeFilled(j) <=> SmallAbsent(j))
          /\ \A j, k \in 1..Len(mapData) :
                (HasThumbnail(mapData[j]) /\ HasThumbnail(mapData[k])) =>
                    (LargeFilled(j) <=> LargeFilled(k))]_vars

\* The ids of the maps the source lists.
SourceMapIds ==
    UNION {{mapSource[k][j].id : j \in 1..Len(mapSource[k])} : k \in DOMAIN mapSource}

\* The large lookup of a page failed and the small one succeeded, and the
\* run went on to store the catalog: every map of the source is in maps, and
\* map 1 is stored with its small url and no large one.
C18_Witness ==
    /\ Logged("maps")
    /\ MapIds(maps) = SourceMapIds
    /\ \E m \in maps :
          /\ m.map_id = 1
          /\ m.large_thumb = NoThumb
          /\ m.small_thumb = <<"75x75", ApiMap(1).thumbnail>>


(***************************************************************************)
(* The keys of the three tables in every state of every run, on Spec.      *)
(***************************************************************************)
\* C19: in every state of every run, a crashed one included, globals has at
\* most one row per time_id and at most one per (map_id, game, style, course),
\* users at most one row per user_id and maps at most one row per map_id.
C19_EachTableKeyed ==
    /\ GlobalsKeysHold(globals)
    /\ \A u, v \in users : u # v => u.user_id # v.user_id
    /\ \A m, n \in maps : m # n => m.map_id # n.map_id

\* A seed run has crashed on its insert, after it had written the maps and
\* the users and emptied globals: the batch it could not insert had two
\* records of one (map, game, style, course).
C19_Witness ==
    /\ pc = "crashed"
    /\ mode = "Seed"
    /\ Logged("globals_truncated")
    /\ ~GlobalsKeysHold(Incoming)
    /\ globals = {}
    /\ Cardinality(users) = 3
    /\ maps # {}


(***************************************************************************)
(* The exhaustion rules of the two loops, checked on PaginationSpec.       *)
(***************************************************************************)
\* A page of the round that is ending came back with zero records.
RoundHadEmptyPage ==
    \E i \in 0..(BurstSize - 1) :
        PromisePage(i) \in fetched /\ PageData(PromisePage(i)) = <<>>

\* The first page of the map list that is not a full one.
FirstShortPage ==
    CHOOSE k \in 1..(Len(mapSource) + 1) :
        /\ Len(MapPageData(k)) < MapPageSize
        /\ \A j \in 1..(k - 1) : Len(MapPageData(j)) = MapPageSize

\* loadMaps has returned the maps it loaded, no request of it having failed.
LoadMapsReturned == pc = "um_check" /\ ~Logged("map_fetch_failed")

\* The j-th map of the list, counted over its pages.
NthMap(j) == MapPageData(((j - 1) \div MapPageSize) + 1)[((j - 1) % MapPageSize) + 1]

\* C20: loadAllWRs leaves its loop at the end of a round exactly when a page
\* of that round came back with zero records; pages of 1 to 99 records do
\* not stop it.  loadMaps leaves its loop at the first page that is empty or
\* has fewer than 100 maps, and goes on after a page of 100: it returns the
\* maps of every page up to that one, those of the short page included, and
\* has requested no page after it.
C20_TwoExhaustionRules ==
    /\ [][(RoundHandled /\ pc' # pc) =>
             (pc' = "seed_insertUsers" <=> RoundHadEmptyPage)]_vars
    /\ [](Returned => \E p \in fetched : PageData(p) = <<>>)
    /\ [][(pc = "lm_request" /\ pc' # pc /\ log' = log) =>
             IF Len(MapPageData(mapCursor)) < 1
             THEN pc' = "um_check" /\ loadResult' = mapsLoaded
             ELSE pc' = "lm_thumbs" /\ mapData' = MapPageData(mapCursor)]_vars
    /\ [][(pc = "lm_thumbs" /\ pc' # pc) =>
             IF Len(mapData) < MapPageSize
             THEN pc' = "um_check" /\ loadResult' = mapsLoaded'
             ELSE pc' = "lm_request"]_vars
    /\ [](LoadMapsReturned =>
             /\ mapCursor = FirstShortPage + 1
             /\ Len(loadResult) =
                    MapPageSize * (FirstShortPage - 1) + Len(MapPageData(FirstShortPage))
             /\ \A j \in 1..Len(loadResult) : loadResult[j].id = NthMap(j).id)

\* loadMaps has returned from a list of a full page and a short one: it asked
\* for two pages and returns the maps of both.
C20_Witness ==
    /\ LoadMapsReturned
    /\ Len(MapPageData(1)) = MapPageSize
    /\ Len(MapPageData(2)) \in 1..(MapPageSize - 1)
    /\ mapCursor = 3
    /\ Len(loadResult) = MapPageSize + Len(MapPageData(2))


(***************************************************************************)
(* What a refresh run asks for and what it leaves stored, checked on Spec. *)
(***************************************************************************)
\* The stored row g shares neither its time_id nor its slot with a row of the
\* batch.
Untouched(g) ==
    \A r \in Incoming : r.time_id # g.time_id /\ SlotOf(r) # SlotOf(g)

\* C21: a refresh run asks for page 1 of the records once its fetch has run
\* and for no other page, before or after; it never enters loadAllWRs, so it
\* never sleeps and its tracker is never touched; its upsert leaves globals
\* with at least as many rows as before, every row that shares no time_id and
\* no slot with the batch as it was, and nothing new but rows of the batch;
\* and no other step of the run changes globals.
C21_RefreshFetchesOnePageAndMerges ==
    /\ [](mode = "Refresh" =>
             /\ requested = (IF pc \in {"idle", "rf_fetch"} THEN <<>> ELSE <<1>>)
             /\ pc \notin {"law_loop", "law_await", "law_process", "law_sleep"}
             /\ burstRemaining = BurstSentinel)
    /\ [][mode = "Refresh" =>
             IF pc = "rf_upsert"
             THEN /\ Cardinality(globals') >= Cardinality(globals)
                  /\ \A g \in globals : Untouched(g) => g \in globals'
                  /\ globals' \subseteq globals \cup Incoming
             ELSE globals' = globals]_vars

\* A refresh run has ended after writing its batch into a table that held
\* more: a row that shares nothing with the batch is still stored next to the
\* rows of the batch, and one request was made.
C21_Witness ==
    /\ mode = "Refresh"
    /\ pc = "exited"
    /\ Logged("globals")
    /\ requested = <<1>>
    /\ Incoming \subseteq globals
    /\ \E g \in globals : Untouched(g)


(***************************************************************************)
(* The capacity tracker of loadAllWRs, checked on DriverSpec.              *)
(***************************************************************************)
\* The step is the reset before the sleep.
ResetsTracker == RoundHandled /\ pc' = "law_sleep"

\* C22: whenever the driver is about to issue the requests of a round, its
\* tracker is at least 70.  The tracker is reset to 999 only at the end of a
\* round that left it below 70 and did not exhaust the fetch; every other
\* step leaves it as it was or lowers it to a value a header of the round
\* carried, and while the responses of a round are handled it is no higher
\* than any value their headers carried.
C22_TrackerAtLeastThresholdAtIssue ==
    /\ []((pc = "law_loop" /\ hasMore) => burstRemaining >= BurstThreshold)
    /\ [](pc = "law_process" => \A v \in RoundValues : burstRemaining <= v)
    /\ [][IF ResetsTracker
          THEN /\ burstRemaining < BurstThreshold
               /\ hasMore
               /\ burstRemaining' = BurstSentinel
          ELSE /\ burstRemaining' <= burstRemaining
               /\ burstRemaining' \in {burstRemaining} \cup RoundValues']_vars

\* A round has left the tracker at 69, the driver has slept, and the next
\* round is about to be issued with the tracker back at 999.
C22_Witness ==
    /\ pc = "law_loop"
    /\ hasMore
    /\ 69 \in RoundValues
    /\ burstRemaining = BurstSentinel
    /\ page > 1


(***************************************************************************)
(* The seed run after a fetch in which requests failed, checked on Spec.   *)
(***************************************************************************)
\* The ids of the records of the pages that were fetched.
FetchedIds ==
    UNION {{PageData(p)[k].id : k \in 1..Len(PageData(p))} : p \in fetched}

\* The pages whose request failed; every response of the fetch is handled
\* once the fetch has returned.
FailedPages == Range(requested) \ fetched

\* A request for a page of records has failed and the run went on.
SomeRequestFailed == FailedPages # {}

\* What holds of the order: globals is emptied only in a seed run whose fetch
\* has returned and whose users are written.
C23_ClearedAfterFetchAndUsers ==
    (mode = "Seed" /\ Logged("globals_truncated")) =>
        /\ ~hasMore
        /\ pc \notin {"law_loop", "law_await", "law_process", "law_sleep",
                       "seed_loadAllWRs", "seed_insertUsers"}
        /\ LoggedBefore("users", "globals_truncated")

\* C23 as the spec states it: a seed run empties globals only after its fetch
\* has returned and its users are written, and when requests of the fetch
\* failed, the run leaves globals holding exactly the records of the pages
\* that were fetched, one row per record.
C23_SeedRewritesFromFetchedPages ==
    /\ C23_ClearedAfterFetchAndUsers
    /\ (SeedWriteOver /\ SomeRequestFailed) =>
          /\ globals = Incoming
          /\ {g.time_id : g \in globals} = FetchedIds
          /\ Cardinality(globals) = Cardinality(FetchedIds)


\* What the code gives instead: after a fetch in which requests failed, the
\* run leaves globals holding exactly the records of the fetched pages and
\* returns, provided no two of those records are on one (map, game, style,
\* course); otherwise the insert is rejected after the table was emptied.
C23_RewrittenUnlessBatchCollides ==
    (SeedWriteOver /\ SomeRequestFailed) =>
        IF GlobalsKeysHold(Incoming)
        THEN /\ globals = Incoming
             /\ {g.time_id : g \in globals} = FetchedIds
             /\ ModeReturned
        ELSE globals = {} /\ pc = "crashed"

=============================================================================
